---------------------------- MODULE Spec2Model ----------------------------
(***************************************************************************)
(* The two type-assertion rewrite scripts of tmp/:                         *)
(*   fix-all-patterns.py  six re.sub rules, per-file try/except            *)
(*   fix-remaining.py     two re.sub rules (the second with re.DOTALL),    *)
(*                        no try/except                                    *)
(*                                                                         *)
(* Text is a sequence of symbols.  A symbol is a string of characters;     *)
(* the text it stands for is the concatenation of its symbols.  The        *)
(* symbols are chosen so that the regular expressions of the scripts see   *)
(* a sequence of symbols exactly as they see its characters:               *)
(*   - every literal of a pattern is a sequence of whole symbols, and no   *)
(*     concatenation of symbols contains it at another place;              *)
(*   - ")" and the line break are symbols of their own and occur inside    *)
(*     no other symbol, so [^)] and . accept or refuse a whole symbol.     *)
(***************************************************************************)
EXTENDS Integers, Sequences, FiniteSets

\* ------------------------------------------------------------------------
\* Bounds of the model
\* ------------------------------------------------------------------------

\* Number of pieces a generated file content is made of (SpecOne).
MaxLen == 3

\* Number of paths in the hardcoded file list (Spec).
NumFiles == 3

\* ------------------------------------------------------------------------
\* Regular expressions
\* ------------------------------------------------------------------------

NL == "\n"

\* Character classes of the capture groups.
NotParen == "[^)]"
Dot      == "."
DotAll   == ". with re.DOTALL"

\* Whether a symbol is accepted by a class.
InClass(cls, sym) ==
    IF cls = NotParen THEN sym # ")"
    ELSE IF cls = Dot THEN sym # NL
    ELSE TRUE

\* The literal lit (not empty) occurs in c at position p.
LitAt(c, p, lit) ==
    /\ p + Len(lit) - 1 <= Len(c)
    /\ c[p] = lit[1]
    /\ SubSeq(c, p, p + Len(lit) - 1) = lit

\* Every symbol of c[a..b] is accepted by cls.
AllIn(c, a, b, cls) == \A k \in a..b : InClass(cls, c[k])

SetMin(S) == CHOOSE m \in S : \A n \in S : m <= n

(***************************************************************************)
(* A rule is  pre (g1: cls1 +?) mid (g2: cls2 +?) post  with the           *)
(* replacement  t0 \2 t1 \1 t2.  re matches at a start position by         *)
(* backtracking: the lazy group 1 takes the fewest symbols for which the   *)
(* rest of the pattern can still match, then group 2 the fewest.           *)
(* Ends1: the ends of group 1 for which the whole pattern matches at s.    *)
(***************************************************************************)
Ends2(c, b, r) ==
    { e2 \in b..(Len(c) - Len(r.post)) :
        /\ LitAt(c, e2 + 1, r.post)
        /\ AllIn(c, b, e2, r.cls2) }

Ends1(c, s, r) ==
    LET a == s + Len(r.pre) IN
    { e1 \in a..(Len(c) - Len(r.mid) - Len(r.post) - 1) :
        /\ LitAt(c, e1 + 1, r.mid)
        /\ AllIn(c, a, e1, r.cls1)
        /\ Ends2(c, e1 + 1 + Len(r.mid), r) # {} }

\* The pattern of r matches in c starting at position s.
MatchesAt(c, s, r) == LitAt(c, s, r.pre) /\ Ends1(c, s, r) # {}

\* The match at s (MatchesAt holds): the two groups and the last position.
MatchAt(c, s, r) ==
    LET a  == s + Len(r.pre)
        e1 == SetMin(Ends1(c, s, r))
        b  == e1 + 1 + Len(r.mid)
        e2 == SetMin(Ends2(c, b, r))
    IN [g1 |-> SubSeq(c, a, e1), g2 |-> SubSeq(c, b, e2),
        last |-> e2 + Len(r.post)]

\* The replacement template of r expanded with the groups of a match.
Expand(r, m) == r.t0 \o m.g2 \o r.t1 \o m.g1 \o r.t2

\* The positions from s on where the pattern of r matches (a match starts
\* with the first symbol of pre).
MatchStarts(c, s, r) ==
    { p \in s..Len(c) : c[p] = r.pre[1] /\ MatchesAt(c, p, r) }

RECURSIVE SubFrom(_, _, _)

\* SubFrom losing the first symbol of the text after the last match.
SubFromDropsSymbol(c, s, r) ==
    LET ps == MatchStarts(c, s, r) IN
    IF ps = {} THEN SubSeq(c, s + 1, Len(c))
    ELSE LET p == SetMin(ps)
             m == MatchAt(c, p, r)
         IN SubSeq(c, s, p - 1) \o Expand(r, m) \o SubFrom(c, m.last + 1, r)

\* SubFrom resuming the scan on the last symbol of the match.
SubFromResumesAtLast(c, s, r) ==
    LET ps == MatchStarts(c, s, r) IN
    IF ps = {} THEN SubSeq(c, s, Len(c))
    ELSE LET p == SetMin(ps)
             m == MatchAt(c, p, r)
         IN SubSeq(c, s, p - 1) \o Expand(r, m) \o SubFrom(c, m.last, r)

\* re.sub(pattern, replacement, c): the leftmost match from the current
\* position is replaced and the scan resumes right after it, so matches do
\* not overlap; the text between the matches is copied.
SubFrom(c, s, r) ==
    LET ps == MatchStarts(c, s, r) IN
    IF ps = {} THEN SubSeq(c, s, Len(c))
    ELSE LET p == SetMin(ps)
             m == MatchAt(c, p, r)
         IN SubSeq(c, s, p - 1) \o Expand(r, m) \o SubFrom(c, m.last + 1, r)

Sub(r, c) == SubFrom(c, 1, r)

\* ------------------------------------------------------------------------
\* The rules of the two scripts
\* ------------------------------------------------------------------------

CallEnd == << ">", "(", ")" >>

\* Pattern 1 with the replacement of pattern 5, which has no typeof.
AllRule1NoTypeof ==
    [pre  |-> << "expectTypeOf(" >>, cls1 |-> NotParen,
     mid  |-> << ")", ".toEqualTypeOf(" >>, cls2 |-> NotParen,
     post |-> << ")" >>,
     t0 |-> << "Ts.Assert.exact.ofAs<" >>,
     t1 |-> CallEnd \o << ".on(" >>,
     t2 |-> << ")" >>]

\* fix-all-patterns, pattern 1: expectTypeOf(v1).toEqualTypeOf(v2)
AllRule1 ==
    [pre  |-> << "expectTypeOf(" >>, cls1 |-> NotParen,
     mid  |-> << ")", ".toEqualTypeOf(" >>, cls2 |-> NotParen,
     post |-> << ")" >>,
     t0 |-> << "Ts.Assert.exact.ofAs<typeof " >>,
     t1 |-> CallEnd \o << ".on(" >>,
     t2 |-> << ")" >>]

\* fix-all-patterns, pattern 2: expectTypeOf(v).toMatchTypeOf<T>()
AllRule2 ==
    [pre  |-> << "expectTypeOf(" >>, cls1 |-> NotParen,
     mid  |-> << ")", ".toMatchTypeOf<" >>, cls2 |-> Dot,
     post |-> CallEnd,
     t0 |-> << "Ts.Assert.sub.ofAs<" >>,
     t1 |-> CallEnd \o << ".on(" >>,
     t2 |-> << ")" >>]

\* fix-all-patterns, pattern 3: expectTypeOf<T>().toMatchTypeOf<S>()
AllRule3 ==
    [pre  |-> << "expectTypeOf<" >>, cls1 |-> Dot,
     mid  |-> CallEnd \o << ".toMatchTypeOf<" >>, cls2 |-> Dot,
     post |-> CallEnd,
     t0 |-> << "Ts.Assert.sub.ofAs<" >>,
     t1 |-> CallEnd \o << ".onAs<" >>,
     t2 |-> CallEnd]

\* fix-all-patterns, pattern 4: expectTypeOf<T>().not.toMatchTypeOf<S>()
AllRule4 ==
    [pre  |-> << "expectTypeOf<" >>, cls1 |-> Dot,
     mid  |-> CallEnd \o << ".not", ".toMatchTypeOf<" >>, cls2 |-> Dot,
     post |-> CallEnd,
     t0 |-> << "Ts.Assert.not.sub.ofAs<" >>,
     t1 |-> CallEnd \o << ".onAs<" >>,
     t2 |-> CallEnd]

\* fix-all-patterns, pattern 5: expectTypeOf(v).toEqualTypeOf<T>()
AllRule5 ==
    [pre  |-> << "expectTypeOf(" >>, cls1 |-> NotParen,
     mid  |-> << ")", ".toEqualTypeOf<" >>, cls2 |-> Dot,
     post |-> CallEnd,
     t0 |-> << "Ts.Assert.exact.ofAs<" >>,
     t1 |-> CallEnd \o << ".on(" >>,
     t2 |-> << ")" >>]

\* fix-all-patterns, pattern 6: expectTypeOf<T>().toEqualTypeOf<E>()
AllRule6 ==
    [pre  |-> << "expectTypeOf<" >>, cls1 |-> Dot,
     mid  |-> CallEnd \o << ".toEqualTypeOf<" >>, cls2 |-> Dot,
     post |-> CallEnd,
     t0 |-> << "Ts.Assert.exact.ofAs<" >>,
     t1 |-> CallEnd \o << ".onAs<" >>,
     t2 |-> CallEnd]

\* fix-remaining, pattern 1: expectTypeOf(v).toEqualTypeOf<T>()
RemRule1 ==
    [pre  |-> << "expectTypeOf(" >>, cls1 |-> NotParen,
     mid  |-> << ")", ".toEqualTypeOf<" >>, cls2 |-> Dot,
     post |-> CallEnd,
     t0 |-> << "Ts.Assert.exact.ofAs<" >>,
     t1 |-> CallEnd \o << ".on(" >>,
     t2 |-> << ")" >>]

\* fix-remaining, pattern 2 with replace_type_only, flags=re.DOTALL
RemRule2 ==
    [pre  |-> << "expectTypeOf<" >>, cls1 |-> DotAll,
     mid  |-> CallEnd \o << ".toEqualTypeOf<" >>, cls2 |-> DotAll,
     post |-> CallEnd,
     t0 |-> << "Ts.Assert.exact.ofAs<" >>,
     t1 |-> CallEnd \o << ".onAs<" >>,
     t2 |-> CallEnd]

FixAll == "fix-all-patterns"
FixRem == "fix-remaining"
Variants == {FixAll, FixRem}

\* The rules of a script, in the order the script applies them.
Rules(v) ==
    IF v = FixAll
    THEN << AllRule1, AllRule2, AllRule3, AllRule4, AllRule5, AllRule6 >>
    ELSE << RemRule1, RemRule2 >>

\* The first n rules of rs applied to c, each to the output of the one before.
RECURSIVE ApplyRules(_, _, _)
ApplyRules(rs, n, c) ==
    IF n = 0 THEN c ELSE Sub(rs[n], ApplyRules(rs, n - 1, c))

\* content after all the rules of script v, from the content read.
Rewrite(v, c) == ApplyRules(Rules(v), Len(Rules(v)), c)

\* ------------------------------------------------------------------------
\* File contents
\* ------------------------------------------------------------------------

\* The assertion forms the rules are written for, with their arguments.
ValueValue(a, b) ==
    << "expectTypeOf(" >> \o a \o << ")", ".toEqualTypeOf(" >> \o b \o << ")" >>
ValueMatch(a, b) ==
    << "expectTypeOf(" >> \o a \o << ")", ".toMatchTypeOf<" >> \o b \o CallEnd
TypeMatch(a, b) ==
    << "expectTypeOf<" >> \o a \o CallEnd \o << ".toMatchTypeOf<" >> \o b \o CallEnd
NotTypeMatch(a, b) ==
    << "expectTypeOf<" >> \o a \o CallEnd \o << ".not", ".toMatchTypeOf<" >>
        \o b \o CallEnd
ValueType(a, b) ==
    << "expectTypeOf(" >> \o a \o << ")", ".toEqualTypeOf<" >> \o b \o CallEnd
TypeType(a, b) ==
    << "expectTypeOf<" >> \o a \o CallEnd \o << ".toEqualTypeOf<" >> \o b \o CallEnd

\* An assertion no rule is written for.
OtherAssertion == << "expectTypeOf<", "Foo" >> \o CallEnd \o << ".toBeString", "(", ")" >>

\* Arguments: values, type names, and a type written over two lines.
X == << "x" >>
Y == << "y" >>
Foo == << "Foo" >>
Bar == << "Bar" >>
TwoLines == << "{", NL, "}" >>
TypeArgs == {Foo, Bar, TwoLines}

\* What the generated contents are made of: whole assertions, a line
\* break, and fragments of assertions (an opened call, a chained matcher).
Pieces ==
    { ValueValue(X, Y), ValueMatch(X, Bar), TypeMatch(Foo, Bar),
      NotTypeMatch(Foo, Bar), ValueType(X, Bar), TypeType(Foo, Bar),
      TypeType(TwoLines, Bar), OtherAssertion,
      << NL >>, << "expectTypeOf(" >>,
      << ".toEqualTypeOf<" >> \o Bar \o CallEnd }

RECURSIVE Concat(_)
Concat(ps) == IF ps = << >> THEN << >> ELSE Head(ps) \o Concat(Tail(ps))

\* Contents of at most MaxLen pieces.
Contents ==
    { Concat(ps) : ps \in UNION { [1..n -> Pieces] : n \in 0..MaxLen } }

\* The contents the files of a whole run hold.
SampleContents ==
    { << NL >>, OtherAssertion, ValueValue(X, Y),
      TypeType(Foo, Bar) \o << NL >> \o ValueType(X, Bar) }

\* ------------------------------------------------------------------------
\* State
\* ------------------------------------------------------------------------

VARIABLES
    variant,  \* the script that runs
    files,    \* its list of paths
    disk,     \* the file system: existing path -> content
    i,        \* position in files of the next path of the loop
    changed,  \* the counter of the loop
    out,      \* the lines printed so far
    calls,    \* the calls of fix_file so far, in order
    pc        \* "loop", "done" (ran to its end), "crashed" (uncaught exception)

vars == << variant, files, disk, i, changed, out, calls, pc >>

Paths == 1..NumFiles

TypeOK ==
    /\ variant \in Variants
    /\ DOMAIN disk \subseteq Paths
    /\ i \in 1..(Len(files) + 1)
    /\ changed \in 0..Len(files)
    /\ pc \in {"loop", "done", "crashed"}

Start ==
    /\ variant \in Variants
    /\ i = 1
    /\ changed = 0
    /\ out = << >>
    /\ calls = << >>
    /\ pc = "loop"

\* A run over NumFiles paths, each missing or holding a sample content.
Init ==
    /\ Start
    /\ files = [k \in 1..NumFiles |-> k]
    /\ disk \in UNION { [S -> SampleContents] : S \in SUBSET Paths }

\* A run over one path, missing or holding any content of the bound.
InitOne ==
    /\ Start
    /\ files = << 1 >>
    /\ disk \in UNION { [S -> Contents] : S \in SUBSET {1} }

\* ------------------------------------------------------------------------
\* fix_file and the loop over the files
\* ------------------------------------------------------------------------

\* open(filepath, 'r') raises when the path does not exist.
Readable(p) == p \in DOMAIN disk

\* A fix_file that writes whatever the rules did.
DiffersAlways(content, original) == TRUE

\* The comparison that decides the write.
Differs(content, original) == content # original

\* The record of one call: what was read, the content after the rules,
\* whether the file was written, and how the call ended.
Returned(p, original, content) ==
    [path |-> p, original |-> original, content |-> content,
     wrote |-> Differs(content, original),
     result |-> IF Differs(content, original) THEN "True" ELSE "False"]

Raised(p) ==
    [path |-> p, original |-> << >>, content |-> << >>,
     wrote |-> FALSE, result |-> "raise"]

Line(kind, p, n) == [kind |-> kind, path |-> p, n |-> n]

\* fix_file writes the file and returns True: the loop counts it.
IterFixed ==
    /\ pc = "loop" /\ i <= Len(files)
    /\ Readable(files[i])
    /\ LET p == files[i]
           c == Returned(p, disk[p], Rewrite(variant, disk[p]))
       IN /\ c.wrote
          /\ disk' = [disk EXCEPT ![p] = c.content]
          /\ out' = Append(out, Line("fixed", p, 0))
          /\ calls' = Append(calls, c)
          /\ changed' = changed + 1
    /\ i' = i + 1
    /\ UNCHANGED << variant, files, pc >>

\* A loop that counts every file fix_file returned for.
IterNoChangeCounted ==
    /\ pc = "loop" /\ i <= Len(files)
    /\ Readable(files[i])
    /\ LET p == files[i]
           c == Returned(p, disk[p], Rewrite(variant, disk[p]))
       IN /\ ~c.wrote
          /\ out' = Append(out, Line("nochange", p, 0))
          /\ calls' = Append(calls, c)
    /\ i' = i + 1
    /\ changed' = changed + 1
    /\ UNCHANGED << variant, files, disk, pc >>

\* fix_file leaves the file alone and returns False.
IterNoChange ==
    /\ pc = "loop" /\ i <= Len(files)
    /\ Readable(files[i])
    /\ LET p == files[i]
           c == Returned(p, disk[p], Rewrite(variant, disk[p]))
       IN /\ ~c.wrote
          /\ out' = Append(out, Line("nochange", p, 0))
          /\ calls' = Append(calls, c)
    /\ i' = i + 1
    /\ UNCHANGED << variant, files, disk, changed, pc >>

\* A fix_file that opens its path in a mode that creates the file.
IterErrorCreates ==
    /\ pc = "loop" /\ i <= Len(files)
    /\ ~Readable(files[i])
    /\ variant = FixAll
    /\ disk' = [q \in DOMAIN disk \cup {files[i]} |->
                  IF q = files[i] THEN << >> ELSE disk[q]]
    /\ out' = Append(out, Line("error", files[i], 0))
    /\ calls' = Append(calls, Raised(files[i]))
    /\ i' = i + 1
    /\ UNCHANGED << variant, files, changed, pc >>

\* fix-all-patterns: the exception of fix_file is caught and printed.
IterError ==
    /\ pc = "loop" /\ i <= Len(files)
    /\ ~Readable(files[i])
    /\ variant = FixAll
    /\ out' = Append(out, Line("error", files[i], 0))
    /\ calls' = Append(calls, Raised(files[i]))
    /\ i' = i + 1
    /\ UNCHANGED << variant, files, disk, changed, pc >>

\* fix-remaining: nothing catches the exception of fix_file; the run ends.
IterCrash ==
    /\ pc = "loop" /\ i <= Len(files)
    /\ ~Readable(files[i])
    /\ variant = FixRem
    /\ calls' = Append(calls, Raised(files[i]))
    /\ pc' = "crashed"
    /\ UNCHANGED << variant, files, disk, i, changed, out >>

\* After the loop: the summary line.
Summary ==
    /\ pc = "loop" /\ i > Len(files)
    /\ out' = Append(out, Line("summary", 0, changed))
    /\ pc' = "done"
    /\ UNCHANGED << variant, files, disk, i, changed, calls >>

Next == IterFixed \/ IterNoChange \/ IterError \/ IterCrash \/ Summary

Spec == Init /\ [][Next]_vars

SpecOne == InitOne /\ [][Next]_vars

\* ------------------------------------------------------------------------
\* Vocabulary of the properties
\* ------------------------------------------------------------------------

Done == pc = "done"

\* The calls of fix_file that read their file and returned.
ReturnedCalls == { k \in 1..Len(calls) : calls[k].result # "raise" }

\* The paths of the list that do not exist.
MissingFiles == { k \in 1..Len(files) : files[k] \notin DOMAIN disk }

\* The rewritten forms the assertions are to take.
ExactOn(a, b) ==
    << "Ts.Assert.exact.ofAs<typeof " >> \o b \o CallEnd \o << ".on(" >> \o a
        \o << ")" >>
ExactOnAs(a, b) ==
    << "Ts.Assert.exact.ofAs<" >> \o b \o CallEnd \o << ".onAs<" >> \o a \o CallEnd
NotSubOnAs(a, b) ==
    << "Ts.Assert.not.sub.ofAs<" >> \o b \o CallEnd \o << ".onAs<" >> \o a
        \o CallEnd

\* The number of places of c where the text t stands.
Count(t, c) == Cardinality({ p \in 1..Len(c) : LitAt(c, p, t) })

\* Contents that are whole assertions and line breaks, one after the other.
Whole ==
    { ValueValue(X, Y), ValueMatch(X, Bar), TypeMatch(Foo, Bar),
      NotTypeMatch(Foo, Bar), ValueType(X, Bar), TypeType(Foo, Bar),
      OtherAssertion, << NL >> }

RECURSIVE MadeOfWhole(_)
MadeOfWhole(c) ==
    \/ c = << >>
    \/ \E a \in Whole :
         /\ Len(a) <= Len(c)
         /\ SubSeq(c, 1, Len(a)) = a
         /\ MadeOfWhole(SubSeq(c, Len(a) + 1, Len(c)))

\* The instances of the pattern of r in c, as re.sub finds them one after
\* the other: their start positions.
RECURSIVE StartsFrom(_, _, _)
StartsFrom(c, s, r) ==
    LET ps == MatchStarts(c, s, r) IN
    IF ps = {} THEN {}
    ELSE LET p == SetMin(ps)
         IN {p} \cup StartsFrom(c, MatchAt(c, p, r).last + 1, r)

Starts(r, c) == StartsFrom(c, 1, r)

\* The instances of the patterns of script v in c: << rule, position >>.
Instances(v, c) ==
    UNION { { << k, p >> : p \in Starts(Rules(v)[k], c) } :
            k \in 1..Len(Rules(v)) }

\* c with the match of r at p replaced, the rest as it was.
ReplacedAt(c, r, p) ==
    LET m == MatchAt(c, p, r)
    IN SubSeq(c, 1, p - 1) \o Expand(r, m) \o SubSeq(c, m.last + 1, Len(c))

\* ------------------------------------------------------------------------
\* Properties
\* ------------------------------------------------------------------------

\* C1: a call of fix_file on a readable file writes the file exactly when
\* the content after the rules differs from the content read, returns True
\* exactly when it wrote, and leaves on disk the rewritten content (written)
\* or the content read (not written).
C1_WriteIffDiffers ==
    \A k \in ReturnedCalls :
        LET c == calls[k] IN
        /\ c.wrote <=> (c.content # c.original)
        /\ (c.result = "True") <=> c.wrote
        /\ disk[c.path] = IF c.wrote THEN c.content ELSE c.original
        /\ out[k].kind = IF c.wrote THEN "fixed" ELSE "nochange"

C1_Witness ==
    /\ Done
    /\ \E k \in ReturnedCalls : calls[k].wrote /\ calls[k].result = "True"

\* C2: idempotence: the rewrite of a rewritten content changes nothing, so
\* a second run reads what the first left and does not write.
C2_Idempotent ==
    Done =>
    \A k \in ReturnedCalls :
        /\ disk[calls[k].path] = calls[k].content
        /\ Rewrite(variant, calls[k].content) = calls[k].content

\* C3: with a path of the list missing, the run prints an error line for
\* that path, does not end on the exception, calls fix_file for every later
\* path and ends with the summary line.
C3_MissingFileIsolated ==
    MissingFiles # {} =>
    /\ pc # "crashed"
    /\ \A k \in 1..Len(calls) :
         calls[k].result = "raise" =>
            k <= Len(out) /\ out[k] = Line("error", calls[k].path, 0)
    /\ Done =>
         /\ Len(calls) = Len(files)
         /\ out[Len(out)].kind = "summary"

\* C4 as stated: expectTypeOf(x).toEqualTypeOf(y) becomes
\* Ts.Assert.exact.ofAs<typeof y>().on(x) and the file is reported changed.
C4_ValueValueRewritten ==
    \A k \in ReturnedCalls :
        calls[k].original = ValueValue(X, Y) =>
            /\ calls[k].content = ExactOn(X, Y)
            /\ disk[calls[k].path] = ExactOn(X, Y)
            /\ calls[k].result = "True"
            /\ out[k] = Line("fixed", calls[k].path, 0)

\* C4 amended: fix-all-patterns rewrites expectTypeOf(x).toEqualTypeOf(y) to
\* Ts.Assert.exact.ofAs<typeof y>().on(x) and reports the file changed;
\* fix-remaining, which has no rule for it, leaves the file as it is and
\* reports it unchanged.
C4_ValueValueByScript ==
    \A k \in ReturnedCalls :
        calls[k].original = ValueValue(X, Y) =>
            IF variant = FixAll
            THEN /\ calls[k].content = ExactOn(X, Y)
                 /\ disk[calls[k].path] = ExactOn(X, Y)
                 /\ calls[k].result = "True"
                 /\ out[k] = Line("fixed", calls[k].path, 0)
            ELSE /\ disk[calls[k].path] = ValueValue(X, Y)
                 /\ calls[k].result = "False"
                 /\ out[k] = Line("nochange", calls[k].path, 0)

C4_Witness ==
    /\ Done
    /\ variant = FixAll
    /\ \E k \in ReturnedCalls :
         calls[k].original = ValueValue(X, Y) /\ calls[k].wrote

\* C5: expectTypeOf<a>().toEqualTypeOf<b>() becomes
\* Ts.Assert.exact.ofAs<b>().onAs<a>(), for every pair of type arguments.
C5_TypeOnlyRewritten ==
    \A k \in ReturnedCalls :
        \A a \in TypeArgs, b \in TypeArgs :
            calls[k].original = TypeType(a, b) =>
                /\ calls[k].content = ExactOnAs(a, b)
                /\ disk[calls[k].path] = ExactOnAs(a, b)

\* C6: a file with no instance of any pattern of the script is left as it
\* is: not written, same content on disk, fix_file returns False, reported
\* as without changes.
C6_NoInstanceUnchanged ==
    Done =>
    \A k \in ReturnedCalls :
        Instances(variant, calls[k].original) = {} =>
            /\ ~calls[k].wrote
            /\ calls[k].content = calls[k].original
            /\ disk[calls[k].path] = calls[k].original
            /\ calls[k].result = "False"
            /\ out[k] = Line("nochange", calls[k].path, 0)

C6_Witness ==
    /\ Done
    /\ \E k \in ReturnedCalls :
         /\ Instances(variant, calls[k].original) = {}
         /\ Count(<< "expectTypeOf<" >>, calls[k].original) > 0
         /\ Count(<< ".toEqualTypeOf<" >>, calls[k].original) > 0

C8_NoFileCreatedOrDeleted ==
    [][ /\ DOMAIN disk' = DOMAIN disk
        /\ (pc = "loop" /\ i <= Len(files) /\ files[i] \notin DOMAIN disk) =>
              /\ calls' = Append(calls, Raised(files[i]))
              /\ disk' = disk
              /\ files[i] \notin DOMAIN disk' ]_vars

C8_Witness ==
    /\ Done
    /\ \E k \in 1..Len(calls) : calls[k].result = "raise"
    /\ \E k \in 1..Len(calls) : calls[k].wrote

\* C9: fix_file is called for the paths of the list in their order, each
\* once at most, and the count of the summary line is the number of calls
\* that returned True, which is the number of files whose content changed;
\* a file left unchanged or a failed call is not counted.
C9_OrderAndCount ==
    /\ Len(calls) <= Len(files)
    /\ \A k \in 1..Len(calls) : calls[k].path = files[k]
    /\ Done =>
         /\ out[Len(out)] =
              Line("summary", 0,
                   Cardinality({ k \in 1..Len(calls) : calls[k].result = "True" }))
         /\ out[Len(out)].n =
              Cardinality({ k \in ReturnedCalls :
                              disk[calls[k].path] # calls[k].original })

C9_Witness ==
    /\ Done
    /\ changed = 1
    /\ \E k \in 1..Len(calls) : calls[k].result = "raise"
    /\ \E k \in 1..Len(calls) : calls[k].result = "False"

\* C10: in fix-all-patterns every negated type-only subtype assertion of
\* the input comes out as Ts.Assert.not.sub.ofAs<S>().onAs<T>(), whatever
\* assertions stand around it, and rule 3 leaves its text to rule 4.
C10_NegatedRewritten ==
    Done /\ variant = FixAll =>
    \A k \in ReturnedCalls :
        LET c == calls[k]
            n == Count(NotTypeMatch(Foo, Bar), c.original)
        IN MadeOfWhole(c.original) =>
             /\ Count(NotSubOnAs(Foo, Bar), c.content) = n
             /\ Count(NotTypeMatch(Foo, Bar),
                      ApplyRules(Rules(FixAll), 3, c.original)) = n

=============================================================================
